---- MODULE Spec2Model ----
(***************************************************************************)
(* A model of the church management system's request handlers: the        *)
(* last-path middleware, login and logout, the Evangelist-gated views,     *)
(* the role dashboards, the admin-restricted member views and the SMS      *)
(* gateway call.  One action is one HTTP request: LastPathMiddleware's     *)
(* process_request followed by the view the URL names.                     *)
(***************************************************************************)
EXTENDS Integers, Sequences, FiniteSets, TLC

VARIABLES
    users,          \* CustomUser rows: user id -> [exists, is_superuser, user_type,
                    \* church_member]
    members,        \* ChurchMember rows: member id -> [exists, status, sacrament fields]
    leaders,        \* Leader rows: set of [church_member, occupation, time_in_service,
                    \* leader_id]
    sessions,       \* request.session per browser: [user, last_visited_path]
    loginHistory,   \* LoginHistory rows in login_time order: [user, last_visited_path]
    sentSMS,        \* SentSMS rows in creation order: [recipient, request_id, status]
    news,           \* primary keys of the stored News rows
    unread,         \* members that have an unread Notification
    response,       \* outcome of the request handled last
    checked,        \* the last call of a function called on its own: the row
                    \* validate_member_data was called on and its messages, or the
                    \* arguments of get_user_last_path and what it returned
    lastPage        \* history variable: per user, the last page other than an ignored
                    \* path or the logout URL that the user requested while logged in

vars == <<users, members, leaders, sessions, loginHistory, sentSMS, news, unread,
          response, checked, lastPage>>

None == "None"

(***************************************************************************)
(* Bounds of the model.                                                    *)
(***************************************************************************)
MaxHistory == 2
MaxSMS == 2
MaxRecords == 3

UserIds == {"u1", "u2", "u3"}
MemberIds == {"m1", "m2"}
SessionIds == {"s1", "s2"}
NewsIds == {"n1", "n2"}
Methods == {"GET", "POST"}

UserTypes == {"ADMIN", "CHURCH_MEMBER"}
\* user_type is a CharField: save() accepts a value outside USER_TYPES as well.
UserTypeValues == UserTypes \cup {"OTHER"}
Statuses == {"Active", "Pending", "Inactive"}
MaritalStatuses == {"Single", "Married", "Widowed"}
\* The four occupations handle_user_redirection names, and one it does not.
Occupations == {"Senior Pastor", "Evangelist", "Parish Council Secretary",
                "Parish Treasurer", "Deacon"}

(***************************************************************************)
(* Paths are named by their URL names.                                     *)
(***************************************************************************)
get_ignored_paths ==
    {"login", "request_account", "forgot_password", "welcome", "public_news_list"}

\* What a call of send_sms came to: not called, returned a dictionary, or raised.
\* attempts counts the calls of requests.post the call of send_sms made.
NoSms == [outcome |-> "none", success |-> FALSE, request_id |-> None, error |-> FALSE,
          attempts |-> 0]

NoResponse == [view |-> None, user |-> None, method |-> None, kind |-> None,
               target |-> None, msg |-> None, errors |-> {}, sms |-> NoSms,
               pk |-> None, auth |-> None]

Resp(view, user, method, kind, target, msg) ==
    [view |-> view, user |-> user, method |-> method, kind |-> kind,
     target |-> target, msg |-> msg, errors |-> {}, sms |-> NoSms, pk |-> None,
     auth |-> None]

AnonymousSession == [user |-> None, last_visited_path |-> None]

\* A member row that satisfies the sacrament ordering and carries `st`.
PlainMember(st) ==
    [exists |-> TRUE, status |-> st, is_baptised |-> TRUE,
     has_received_first_communion |-> FALSE, is_confirmed |-> FALSE,
     is_married |-> FALSE, marital_status |-> "Single"]

(***************************************************************************)
(* Reading the rows the way the views do.                                  *)
(***************************************************************************)
\* user.church_member: the linked row, or None.
church_member(u) == users[u].church_member

\* hasattr(church_member, 'leader') / getattr(church_member, 'leader', None)
HasLeader(m) == m # None /\ \E l \in leaders : l.church_member = m

LeaderOf(m) == CHOOSE l \in leaders : l.church_member = m

\* Faulty variant: the test lets every logged-in user pass.
is_any_authenticated(u) == u # None

is_admin_or_superuser(u) ==
    u # None /\ (users[u].is_superuser \/ users[u].user_type = "ADMIN")

(***************************************************************************)
(* handle_user_redirection: the dashboard a user is sent to.               *)
(***************************************************************************)
\* Faulty variant: only admins have a dashboard, everyone else goes to login.
handle_user_redirection_admin_or_login(u) ==
    IF users[u].is_superuser \/ users[u].user_type = "ADMIN"
    THEN "admin_dashboard"
    ELSE "login"

\* Faulty variant: the occupation is looked at before the admin rule.
handle_user_redirection_occupation_first(u) ==
    IF users[u].user_type = "CHURCH_MEMBER" /\ HasLeader(church_member(u))
    THEN LET occ == LeaderOf(church_member(u)).occupation
         IN  CASE occ = "Senior Pastor" -> "pastor_dashboard"
               [] occ = "Evangelist" -> "evangelist_dashboard"
               [] occ = "Parish Council Secretary" -> "secretary_dashboard"
               [] occ = "Parish Treasurer" -> "accountant_dashboard"
               [] OTHER -> "member_dashboard"
    ELSE IF users[u].is_superuser \/ users[u].user_type = "ADMIN"
    THEN "admin_dashboard"
    ELSE IF users[u].user_type = "CHURCH_MEMBER"
    THEN "member_dashboard"
    ELSE "login"

handle_user_redirection(u) ==
    IF users[u].is_superuser \/ users[u].user_type = "ADMIN"
    THEN "admin_dashboard"
    ELSE IF users[u].user_type = "CHURCH_MEMBER"
    THEN IF HasLeader(church_member(u))
         THEN LET occ == LeaderOf(church_member(u)).occupation
              IN  CASE occ = "Senior Pastor" -> "pastor_dashboard"
                    [] occ = "Evangelist" -> "evangelist_dashboard"
                    [] occ = "Parish Council Secretary" -> "secretary_dashboard"
                    [] occ = "Parish Treasurer" -> "accountant_dashboard"
                    [] OTHER -> "member_dashboard"
         ELSE "member_dashboard"
    ELSE "login"

(***************************************************************************)
(* LastPathMiddleware.process_request, as its effect on the session and    *)
(* on the LoginHistory rows.                                               *)
(***************************************************************************)
\* Faulty variant: the user's row with the earliest login_time.
EarliestIndex(hist, u) ==
    LET idx == {i \in 1..Len(hist) : hist[i].user = u}
    IN  IF idx = {} THEN 0 ELSE CHOOSE i \in idx : \A j \in idx : i <= j

\* Index of the user's row with the latest login_time, 0 when there is none.
LatestIndex(hist, u) ==
    LET idx == {i \in 1..Len(hist) : hist[i].user = u}
    IN  IF idx = {} THEN 0 ELSE CHOOSE i \in idx : \A j \in idx : j <= i

\* Faulty variant: the middleware stores every path, ignored or not.
MwSessionStoresAll(sess, path) ==
    IF sess.user = None THEN sess
    ELSE [sess EXCEPT !.last_visited_path = path]

MwSession(sess, path) ==
    IF sess.user = None THEN sess
    ELSE IF path \in get_ignored_paths
         THEN [sess EXCEPT !.last_visited_path = None]
         ELSE [sess EXCEPT !.last_visited_path = path]

MwHistory(hist, sess, path) ==
    IF sess.user = None \/ path \in get_ignored_paths THEN hist
    ELSE LET i == LatestIndex(hist, sess.user)
         IN  IF i = 0 THEN hist
             ELSE [hist EXCEPT ![i].last_visited_path = path]

\* The request's session and the LoginHistory rows when the view starts.
Pipeline(s, path) ==
    [sess |-> MwSession(sessions[s], path),
     hist |-> MwHistory(loginHistory, sessions[s], path)]

(***************************************************************************)
(* login_view                                                              *)
(***************************************************************************)
\* Faulty variant: login checks only that a member is linked, not its status.
LoginBlockedMissingOnly(u) ==
    /\ ~users[u].is_superuser
    /\ users[u].user_type = "CHURCH_MEMBER"
    /\ church_member(u) = None

\* The check of lines 35-36: a church-member account that may not log in.
LoginBlocked(u) ==
    /\ ~users[u].is_superuser
    /\ users[u].user_type = "CHURCH_MEMBER"
    /\ \/ church_member(u) = None
       \/ members[church_member(u)].status # "Active"

\* Where a credential login redirects to, given the popped session path.
LoginTarget(u, last_path) ==
    IF last_path # None /\ last_path \notin get_ignored_paths
    THEN last_path
    ELSE handle_user_redirection(u)

\* `auth` is what authenticate_with_username_or_email returns.
login_view(s, method, formValid, auth) ==
    LET p == Pipeline(s, "login")
        u == p.sess.user
    IN  /\ UNCHANGED <<users, members, leaders, sentSMS, news, unread>>
        /\ IF u # None
           THEN \* already authenticated
                /\ sessions' = [sessions EXCEPT ![s] = p.sess]
                /\ loginHistory' = p.hist
                /\ response' = Resp("login", u, method, "redirect",
                                    LoginTarget(u, p.sess.last_visited_path), None)
           ELSE IF method = "POST" /\ formValid /\ auth # None
           THEN IF LoginBlocked(auth)
                THEN /\ sessions' = [sessions EXCEPT ![s] = p.sess]
                     /\ loginHistory' = p.hist
                     /\ response' = [Resp("login", None, method, "render", "login",
                                          "account_inactive") EXCEPT !.auth = auth]
                ELSE /\ Len(p.hist) < MaxHistory
                     /\ sessions' = [sessions EXCEPT ![s] =
                                        [user |-> auth, last_visited_path |-> None]]
                     /\ loginHistory' =
                            Append(p.hist, [user |-> auth, last_visited_path |-> None])
                     /\ response' =
                            [Resp("login", None, method, "redirect",
                                  LoginTarget(auth, p.sess.last_visited_path), None)
                                 EXCEPT !.auth = auth]
           ELSE /\ sessions' = [sessions EXCEPT ![s] = p.sess]
                /\ loginHistory' = p.hist
                /\ response' = Resp("login", None, method, "render", "login",
                                    IF method = "POST" /\ formValid
                                    THEN "invalid_credentials" ELSE None)

(***************************************************************************)
(* logout_view                                                             *)
(***************************************************************************)
\* Faulty variant: logout clears the whole LoginHistory table.
DeleteHistoryOfAll(hist, u) == << >>

\* LoginHistory.objects.filter(user=user).delete()
DeleteHistoryOf(hist, u) == SelectSeq(hist, LAMBDA r : r.user # u)

logout_view(s, method) ==
    LET p == Pipeline(s, "logout")
        u == p.sess.user
    IN  /\ UNCHANGED <<users, members, leaders, sentSMS, news, unread>>
        /\ IF u = None
           THEN \* @login_required
                /\ sessions' = [sessions EXCEPT ![s] = p.sess]
                /\ loginHistory' = p.hist
                /\ response' = Resp("logout", None, method, "redirect", "login", None)
           ELSE /\ loginHistory' = DeleteHistoryOf(p.hist, u)
                /\ sessions' = [sessions EXCEPT ![s] = AnonymousSession]
                /\ response' = Resp("logout", u, method, "redirect",
                                    handle_user_redirection(u), None)

\* The view leaves the session and the LoginHistory rows as the middleware left them.
AfterMiddleware(s, p) ==
    /\ sessions' = [sessions EXCEPT ![s] = p.sess]
    /\ loginHistory' = p.hist

\* @login_required for an anonymous request: a redirect to the login page.
LoginRequired(s, p, view, method) ==
    /\ AfterMiddleware(s, p)
    /\ response' = Resp(view, None, method, "redirect", "login", None)

(***************************************************************************)
(* The access check every view of evangelist/views.py starts with.         *)
(***************************************************************************)
\* Faulty variant: the gate without the test of the member's status.
EvangelistGateNoStatus(u) ==
    IF users[u].user_type # "CHURCH_MEMBER"
    THEN "user type must be CHURCH_MEMBER"
    ELSE IF church_member(u) = None
    THEN "ChurchMember must be active"
    ELSE IF ~HasLeader(church_member(u))
    THEN "ChurchMember is not a Leader"
    ELSE IF LeaderOf(church_member(u)).occupation # "Evangelist"
    THEN "Only Evangelists"
    ELSE "ok"

\* Faulty variant: the gate without the test of the occupation.
EvangelistGateAnyLeader(u) ==
    IF users[u].user_type # "CHURCH_MEMBER"
    THEN "user type must be CHURCH_MEMBER"
    ELSE IF church_member(u) = None \/ members[church_member(u)].status # "Active"
    THEN "ChurchMember must be active"
    ELSE IF ~HasLeader(church_member(u))
    THEN "ChurchMember is not a Leader"
    ELSE "ok"

\* Faulty variant: the gate passes every CHURCH_MEMBER account linked to a
\* member, as the account was when its session was opened.
EvangelistGateLinkedAccount(u) ==
    IF users[u].user_type # "CHURCH_MEMBER"
    THEN "user type must be CHURCH_MEMBER"
    ELSE IF church_member(u) = None
    THEN "ChurchMember must be active"
    ELSE "ok"

EvangelistGate(u) ==
    IF users[u].user_type # "CHURCH_MEMBER"
    THEN "user type must be CHURCH_MEMBER"
    ELSE IF church_member(u) = None \/ members[church_member(u)].status # "Active"
    THEN "ChurchMember must be active"
    ELSE IF ~HasLeader(church_member(u))
    THEN "ChurchMember is not a Leader"
    ELSE IF LeaderOf(church_member(u)).occupation # "Evangelist"
    THEN "Only Evangelists"
    ELSE "ok"

\* raise PermissionDenied(...)
Denied(s, p, view, method, why) ==
    /\ AfterMiddleware(s, p)
    /\ response' = Resp(view, p.sess.user, method, "forbidden", None, why)

\* The views that only read and render.
EvangelistReadViews ==
    {"evangelist_details", "evangelist_church_member_list",
     "evangelist_inactive_church_member_list", "evangelist_members_home",
     "evangelist_leaders_home", "evangelist_chatbot_view",
     "evangelist_news_list_view", "evangelist_news_home"}

evangelist_read_view(s, view, method) ==
    LET p == Pipeline(s, view)
        u == p.sess.user
    IN  /\ UNCHANGED <<users, members, leaders, sentSMS, news, unread>>
        /\ IF u = None THEN LoginRequired(s, p, view, method)
           ELSE IF EvangelistGate(u) # "ok"
           THEN Denied(s, p, view, method, EvangelistGate(u))
           ELSE /\ AfterMiddleware(s, p)
                /\ response' = Resp(view, u, method, "render", view, None)

\* get_object_or_404(ChurchMember, pk=pk), then render.
evangelist_church_member_detail(s, pk, method) ==
    LET view == "evangelist_church_member_detail"
        p == Pipeline(s, view)
        u == p.sess.user
    IN  /\ UNCHANGED <<users, members, leaders, sentSMS, news, unread>>
        /\ IF u = None THEN LoginRequired(s, p, view, method)
           ELSE IF EvangelistGate(u) # "ok"
           THEN Denied(s, p, view, method, EvangelistGate(u))
           ELSE /\ AfterMiddleware(s, p)
                /\ response' = IF members[pk].exists
                               THEN Resp(view, u, method, "render", view, None)
                               ELSE Resp(view, u, method, "not_found", None, None)

\* leader.time_in_service = calculate_time_in_service(...);
\* leader.save(update_fields=['time_in_service']) for every leader whose member
\* has status `st`: the one column is written.
UpdateTimeInService(ls, sel) ==
    {IF l \in sel THEN [l EXCEPT !.time_in_service = "computed"] ELSE l : l \in ls}

LeadersWithStatus(st) ==
    {l \in leaders : members[l.church_member].status = st}

\* evangelist_leader_list_view (Active) and evangelist_inactive_leader_list_view.
evangelist_leader_list(s, view, st, method) ==
    LET p == Pipeline(s, view)
        u == p.sess.user
    IN  /\ UNCHANGED <<users, members, sentSMS, news, unread>>
        /\ IF u = None
           THEN LoginRequired(s, p, view, method) /\ UNCHANGED leaders
           ELSE IF EvangelistGate(u) # "ok"
           THEN Denied(s, p, view, method, EvangelistGate(u)) /\ UNCHANGED leaders
           ELSE /\ AfterMiddleware(s, p)
                /\ leaders' = UpdateTimeInService(leaders, LeadersWithStatus(st))
                /\ response' = Resp(view, u, method, "render", view, None)

evangelist_leader_list_view(s, method) ==
    evangelist_leader_list(s, "evangelist_leader_list_view", "Active", method)

evangelist_inactive_leader_list_view(s, method) ==
    evangelist_leader_list(s, "evangelist_inactive_leader_list_view", "Inactive", method)

\* get_object_or_404(Leader, pk=pk); a Leader is keyed here by its member.
evangelist_leader_detail_view(s, pk, method) ==
    LET view == "evangelist_leader_detail_view"
        p == Pipeline(s, view)
        u == p.sess.user
    IN  /\ UNCHANGED <<users, members, sentSMS, news, unread>>
        /\ IF u = None
           THEN LoginRequired(s, p, view, method) /\ UNCHANGED leaders
           ELSE IF EvangelistGate(u) # "ok"
           THEN Denied(s, p, view, method, EvangelistGate(u)) /\ UNCHANGED leaders
           ELSE /\ AfterMiddleware(s, p)
                /\ IF HasLeader(pk)
                   THEN /\ leaders' = UpdateTimeInService(leaders, {LeaderOf(pk)})
                        /\ response' = Resp(view, u, method, "render", view, None)
                   ELSE /\ UNCHANGED leaders
                        /\ response' = Resp(view, u, method, "not_found", None, None)

\* pk = None creates a News row, otherwise the row pk is updated.
evangelist_create_news_view(s, pk, method, formValid) ==
    LET view == "evangelist_create_news_view"
        p == Pipeline(s, view)
        u == p.sess.user
    IN  /\ UNCHANGED <<users, members, leaders, sentSMS, unread>>
        /\ IF u = None
           THEN LoginRequired(s, p, view, method) /\ UNCHANGED news
           ELSE IF EvangelistGate(u) # "ok"
           THEN Denied(s, p, view, method, EvangelistGate(u)) /\ UNCHANGED news
           ELSE /\ AfterMiddleware(s, p)
                /\ IF pk # None /\ pk \notin news
                   THEN /\ UNCHANGED news
                        /\ response' = Resp(view, u, method, "not_found", None, None)
                   ELSE IF method = "POST" /\ formValid
                   THEN /\ IF pk = None
                           THEN \E n \in NewsIds \ news : news' = news \cup {n}
                           ELSE UNCHANGED news
                        /\ response' = Resp(view, u, method, "redirect",
                                            "evangelist_news_list", None)
                   ELSE /\ UNCHANGED news
                        /\ response' = Resp(view, u, method, "render", view,
                                            IF method = "POST" THEN "form_errors" ELSE None)

evangelist_news_detail_view(s, pk, method) ==
    LET view == "evangelist_news_detail_view"
        p == Pipeline(s, view)
        u == p.sess.user
    IN  /\ UNCHANGED <<users, members, leaders, sentSMS, news, unread>>
        /\ IF u = None THEN LoginRequired(s, p, view, method)
           ELSE IF EvangelistGate(u) # "ok"
           THEN Denied(s, p, view, method, EvangelistGate(u))
           ELSE /\ AfterMiddleware(s, p)
                /\ response' = IF pk \in news
                               THEN Resp(view, u, method, "render", view, None)
                               ELSE Resp(view, u, method, "not_found", None, None)

evangelist_delete_news_view(s, pk, method) ==
    LET view == "evangelist_delete_news_view"
        p == Pipeline(s, view)
        u == p.sess.user
    IN  /\ UNCHANGED <<users, members, leaders, sentSMS, unread>>
        /\ IF u = None
           THEN LoginRequired(s, p, view, method) /\ UNCHANGED news
           ELSE IF EvangelistGate(u) # "ok"
           THEN Denied(s, p, view, method, EvangelistGate(u)) /\ UNCHANGED news
           ELSE /\ AfterMiddleware(s, p)
                /\ IF pk \notin news
                   THEN /\ UNCHANGED news
                        /\ response' = Resp(view, u, method, "not_found", None, None)
                   ELSE IF method = "POST"
                   THEN /\ news' = news \ {pk}
                        /\ response' = Resp(view, u, method, "redirect",
                                            "evangelist_news_list", None)
                   ELSE /\ UNCHANGED news
                        /\ response' = Resp(view, u, method, "render", view, None)

\* Marks the user's unread notifications as read.
evangelist_notifications_view(s, method) ==
    LET view == "evangelist_notifications_view"
        p == Pipeline(s, view)
        u == p.sess.user
    IN  /\ UNCHANGED <<users, members, leaders, sentSMS, news>>
        /\ IF u = None
           THEN LoginRequired(s, p, view, method) /\ UNCHANGED unread
           ELSE IF EvangelistGate(u) # "ok"
           THEN Denied(s, p, view, method, EvangelistGate(u)) /\ UNCHANGED unread
           ELSE /\ AfterMiddleware(s, p)
                /\ unread' = unread \ {church_member(u)}
                /\ response' = Resp(view, u, method, "render", view, None)

EvangelistViews ==
    EvangelistReadViews \cup
    {"evangelist_church_member_detail", "evangelist_leader_list_view",
     "evangelist_inactive_leader_list_view", "evangelist_leader_detail_view",
     "evangelist_create_news_view", "evangelist_news_detail_view",
     "evangelist_delete_news_view", "evangelist_notifications_view"}

(***************************************************************************)
(* The dashboards of accounts/views.py.  Their bookkeeping of the current  *)
(* Year row touches no row modelled here.                                  *)
(***************************************************************************)
\* pastor_dashboard, evangelist_dashboard, secretary_dashboard,
\* accountant_dashboard and member_dashboard: @login_required only.
RoleDashboards ==
    {"pastor_dashboard", "evangelist_dashboard", "secretary_dashboard",
     "accountant_dashboard"}

login_required_dashboard(s, view, method) ==
    LET p == Pipeline(s, view)
        u == p.sess.user
    IN  /\ UNCHANGED <<users, members, leaders, sentSMS, news, unread>>
        /\ IF u = None THEN LoginRequired(s, p, view, method)
           ELSE /\ AfterMiddleware(s, p)
                /\ response' = Resp(view, u, method, "render", view, None)

\* @user_passes_test(is_admin_or_superuser, login_url='login'): a redirect to login.
NotAdmin(s, p, view, method) ==
    /\ AfterMiddleware(s, p)
    /\ response' = Resp(view, p.sess.user, method, "redirect", "login", None)

admin_dashboard(s, method) ==
    LET view == "admin_dashboard"
        p == Pipeline(s, view)
        u == p.sess.user
    IN  /\ UNCHANGED <<users, members, leaders, sentSMS, news, unread>>
        /\ IF u = None THEN LoginRequired(s, p, view, method)
           ELSE IF ~is_admin_or_superuser(u) THEN NotAdmin(s, p, view, method)
           ELSE /\ AfterMiddleware(s, p)
                /\ response' = Resp(view, u, method, "render", view, None)

\* welcome_page: no decorator, renders for everyone.
welcome_page(s, method) ==
    LET p == Pipeline(s, "welcome")
    IN  /\ UNCHANGED <<users, members, leaders, sentSMS, news, unread>>
        /\ AfterMiddleware(s, p)
        /\ response' = Resp("welcome", p.sess.user, method, "render", "welcome", None)

(***************************************************************************)
(* sms/utils.py: send_sms.  `reply` is what the gateway call produces:     *)
(*   kind "object"    a JSON object, with request_id or without (None),    *)
(*   kind "exception" requests.post or response.json() raises a            *)
(*                    RequestException,                                    *)
(*   kind "scalar"    a JSON null, number or boolean: the test             *)
(*                    "request_id" in response_data raises TypeError,      *)
(*                    which the except clause does not catch.              *)
(***************************************************************************)
RequestIds == {"r1"}

GatewayReplies ==
    [kind : {"object"}, request_id : RequestIds \cup {None}]
    \cup {[kind |-> "exception", request_id |-> None],
          [kind |-> "scalar", request_id |-> None]}

\* Faulty variant: send_sms posts a second time when the first post brought no
\* request_id.
send_sms_result_retry(reply) ==
    CASE reply.kind = "object" /\ reply.request_id # None ->
            [outcome |-> "returned", success |-> TRUE,
             request_id |-> reply.request_id, error |-> FALSE, attempts |-> 1]
      [] reply.kind = "scalar" ->
            [outcome |-> "raised", success |-> FALSE, request_id |-> None,
             error |-> FALSE, attempts |-> 1]
      [] OTHER ->
            [outcome |-> "returned", success |-> FALSE, request_id |-> None,
             error |-> TRUE, attempts |-> 2]

\* What send_sms returns: {"success": True, "request_id": ...} or {"error": ...};
\* outcome "raised" when an exception leaves the function.
send_sms_result(reply) ==
    CASE reply.kind = "object" /\ reply.request_id # None ->
            [outcome |-> "returned", success |-> TRUE,
             request_id |-> reply.request_id, error |-> FALSE, attempts |-> 1]
      [] reply.kind = "object" /\ reply.request_id = None ->
            [outcome |-> "returned", success |-> FALSE, request_id |-> None,
             error |-> TRUE, attempts |-> 1]
      [] reply.kind = "exception" ->
            [outcome |-> "returned", success |-> FALSE, request_id |-> None,
             error |-> TRUE, attempts |-> 1]
      [] OTHER ->
            [outcome |-> "raised", success |-> FALSE, request_id |-> None,
             error |-> FALSE, attempts |-> 1]

\* The SentSMS rows after send_sms(to, message, member).
send_sms_rows(rows, member, reply) ==
    IF reply.kind = "object" /\ reply.request_id # None
    THEN Append(rows, [recipient |-> member, request_id |-> reply.request_id,
                       status |-> "PENDING"])
    ELSE rows

\* Faulty variant: the view reports a gateway failure instead of redirecting.
SmsResponseFailsOnError(view, u, method, target, msg, pk, result) ==
    IF result.outcome = "raised"
    THEN [Resp(view, u, method, "error", None, None) EXCEPT !.sms = result, !.pk = pk]
    ELSE IF result.error
    THEN [Resp(view, u, method, "render", view, "sms_failed")
             EXCEPT !.sms = result, !.pk = pk]
    ELSE [Resp(view, u, method, "redirect", target, msg) EXCEPT !.sms = result, !.pk = pk]

\* How the two views that call send_sms end: the call's result is printed and
\* the success message and the redirect follow whatever it holds; an exception
\* leaving send_sms leaves the view too (a server error).
SmsResponse(view, u, method, target, msg, pk, result) ==
    IF result.outcome = "raised"
    THEN [Resp(view, u, method, "error", None, None) EXCEPT !.sms = result, !.pk = pk]
    ELSE [Resp(view, u, method, "redirect", target, msg) EXCEPT !.sms = result, !.pk = pk]

\* The model's bound on the SentSMS table.
SmsFits(reply) ==
    (reply.kind = "object" /\ reply.request_id # None) => Len(sentSMS) < MaxSMS

(***************************************************************************)
(* members/views.py: validate_member_data, as the set of its messages.     *)
(***************************************************************************)
\* Faulty variant: confirmation is refused only when both earlier sacraments are missing.
validate_member_data_both(m) ==
    (IF m.has_received_first_communion /\ ~m.is_baptised
     THEN {"first_communion_without_baptism"} ELSE {})
    \cup
    (IF m.is_confirmed /\ (~m.has_received_first_communion /\ ~m.is_baptised)
     THEN {"confirmed_without_communion_and_baptism"} ELSE {})
    \cup
    (IF m.is_married /\ (~m.is_confirmed \/ ~m.has_received_first_communion
                          \/ ~m.is_baptised)
     THEN {"married_without_sacraments"} ELSE {})
    \cup
    (IF m.marital_status = "Married" /\ ~m.is_married
     THEN {"married_status_not_married"} ELSE {})

\* Faulty variant: the validator stops at the first rule that is violated.
validate_member_data_first(m) ==
    IF m.has_received_first_communion /\ ~m.is_baptised
    THEN {"first_communion_without_baptism"}
    ELSE IF m.is_confirmed /\ (~m.has_received_first_communion \/ ~m.is_baptised)
    THEN {"confirmed_without_communion_and_baptism"}
    ELSE IF m.is_married /\ (~m.is_confirmed \/ ~m.has_received_first_communion
                               \/ ~m.is_baptised)
    THEN {"married_without_sacraments"}
    ELSE IF m.marital_status = "Married" /\ ~m.is_married
    THEN {"married_status_not_married"}
    ELSE {}

validate_member_data(m) ==
    (IF m.has_received_first_communion /\ ~m.is_baptised
     THEN {"first_communion_without_baptism"} ELSE {})
    \cup
    (IF m.is_confirmed /\ (~m.has_received_first_communion \/ ~m.is_baptised)
     THEN {"confirmed_without_communion_and_baptism"} ELSE {})
    \cup
    (IF m.is_married /\ (~m.is_confirmed \/ ~m.has_received_first_communion
                          \/ ~m.is_baptised)
     THEN {"married_without_sacraments"} ELSE {})
    \cup
    (IF m.marital_status = "Married" /\ ~m.is_married
     THEN {"married_status_not_married"} ELSE {})

\* The rows a member form can submit.
MemberData ==
    [exists : {TRUE}, status : Statuses, is_baptised : BOOLEAN,
     has_received_first_communion : BOOLEAN, is_confirmed : BOOLEAN,
     is_married : BOOLEAN, marital_status : {"Single", "Married"}]

NoMember ==
    [exists |-> FALSE, status |-> None, is_baptised |-> FALSE,
     has_received_first_communion |-> FALSE, is_confirmed |-> FALSE,
     is_married |-> FALSE, marital_status |-> None]

\* ChurchMember's own validation, run when a form saves the row: the
\* messages of the ValidationError it raises, {} when it raises none.
ChurchMemberClean(data) == validate_member_data(data)

\* Faulty variant: the row is stored although the ValidationError was raised.
SavedRowAlways(old, data) == data

\* form.save() inside try/except ValidationError: the row that is stored.
SavedRow(old, data) ==
    IF ChurchMemberClean(data) = {} THEN data ELSE old

(***************************************************************************)
(* members/views.py: the admin-restricted member views.                    *)
(***************************************************************************)
\* creation (member_id = None) or update of a member.
create_or_update_church_member(s, member_id, method, formValid, data, isLeader, reply) ==
    LET view == "create_or_update_church_member"
        p == Pipeline(s, view)
        u == p.sess.user
    IN  /\ UNCHANGED <<users, leaders, news, unread>>
        /\ IF u = None
           THEN LoginRequired(s, p, view, method) /\ UNCHANGED <<members, sentSMS>>
           ELSE IF ~is_admin_or_superuser(u)
           THEN NotAdmin(s, p, view, method) /\ UNCHANGED <<members, sentSMS>>
           ELSE /\ AfterMiddleware(s, p)
                /\ IF member_id # None /\ ~members[member_id].exists
                   THEN /\ UNCHANGED <<members, sentSMS>>
                        /\ response' = Resp(view, u, method, "redirect",
                                            "church_member_list", "member_not_found")
                   ELSE IF method = "POST" /\ formValid
                   THEN IF ChurchMemberClean(data) # {}
                        THEN /\ UNCHANGED <<members, sentSMS>>
                             /\ response' = [Resp(view, u, method, "render", view,
                                                  "validation_error")
                                                 EXCEPT !.errors = ChurchMemberClean(data)]
                        ELSE IF member_id # None
                        THEN /\ members' = [members EXCEPT ![member_id] =
                                               SavedRow(members[member_id], data)]
                             /\ UNCHANGED sentSMS
                             /\ response' = Resp(view, u, method, "redirect",
                                                 "church_member_list", "updated")
                        ELSE \E new \in {m \in MemberIds : ~members[m].exists} :
                             /\ SmsFits(reply)
                             /\ members' = [members EXCEPT ![new] = SavedRow(members[new], data)]
                             /\ sentSMS' = send_sms_rows(sentSMS, new, reply)
                             /\ response' =
                                  SmsResponse(view, u, method,
                                              IF isLeader THEN "create_leader_from_member"
                                              ELSE "church_member_list",
                                              "saved", new, send_sms_result(reply))
                   ELSE /\ UNCHANGED <<members, sentSMS>>
                        /\ response' = Resp(view, u, method, "render", view,
                                            IF method = "POST" THEN "form_errors" ELSE None)

\* Faulty variant: the member is looked up by its id alone.
PendingMemberAnyStatus(member_id) == members[member_id].exists

\* get_object_or_404(ChurchMember, id=member_id, status='Pending') finds a row.
PendingMember(member_id) ==
    members[member_id].exists /\ members[member_id].status = "Pending"

approve_church_member(s, member_id, method, reply) ==
    LET view == "approve_church_member"
        p == Pipeline(s, view)
        u == p.sess.user
    IN  /\ UNCHANGED <<users, leaders, news, unread>>
        /\ IF u = None
           THEN LoginRequired(s, p, view, method) /\ UNCHANGED <<members, sentSMS>>
           ELSE IF ~is_admin_or_superuser(u)
           THEN NotAdmin(s, p, view, method) /\ UNCHANGED <<members, sentSMS>>
           ELSE /\ AfterMiddleware(s, p)
                /\ IF ~PendingMember(member_id)
                   THEN /\ UNCHANGED <<members, sentSMS>>
                        /\ response' = Resp(view, u, method, "not_found", None, None)
                   ELSE IF method = "POST"
                   THEN /\ SmsFits(reply)
                        /\ members' = [members EXCEPT ![member_id].status = "Active"]
                        /\ sentSMS' = send_sms_rows(sentSMS, member_id, reply)
                        /\ response' =
                             SmsResponse(view, u, method, "church_member_list",
                                         "approved", member_id, send_sms_result(reply))
                   ELSE /\ UNCHANGED <<members, sentSMS>>
                        /\ response' = Resp(view, u, method, "render", view, None)

\* The stored row after update_church_member handled the form.
UpdatedRow(old, method, formValid, data) ==
    IF method = "POST" /\ formValid THEN SavedRow(old, data) ELSE old

update_church_member(s, pk, method, formValid, data) ==
    LET view == "update_church_member"
        p == Pipeline(s, view)
        u == p.sess.user
    IN  /\ UNCHANGED <<users, leaders, sentSMS, news, unread>>
        /\ IF u = None
           THEN LoginRequired(s, p, view, method) /\ UNCHANGED members
           ELSE IF ~is_admin_or_superuser(u)
           THEN NotAdmin(s, p, view, method) /\ UNCHANGED members
           ELSE /\ AfterMiddleware(s, p)
                /\ IF ~members[pk].exists
                   THEN /\ UNCHANGED members
                        /\ response' = Resp(view, u, method, "not_found", None, None)
                   ELSE /\ members' = [members EXCEPT ![pk] =
                                          UpdatedRow(members[pk], method, formValid, data)]
                        /\ response' =
                             IF method = "POST" /\ formValid
                             THEN IF ChurchMemberClean(data) = {}
                                  THEN Resp(view, u, method, "redirect",
                                            "church_member_detail", "updated")
                                  ELSE [Resp(view, u, method, "render", view,
                                             "validation_error")
                                            EXCEPT !.errors = ChurchMemberClean(data)]
                             ELSE Resp(view, u, method, "render", view,
                                       IF method = "POST" THEN "form_errors" ELSE None)

\* church_member.delete(): the rows that cascade with the member.
delete_church_member(s, pk, method) ==
    LET view == "delete_church_member"
        p == Pipeline(s, view)
        u == p.sess.user
        gone == {x \in UserIds : users[x].exists /\ users[x].church_member = pk}
    IN  /\ UNCHANGED <<news>>
        /\ IF u = None
           THEN /\ LoginRequired(s, p, view, method)
                /\ UNCHANGED <<users, members, leaders, sentSMS, unread>>
           ELSE IF ~is_admin_or_superuser(u)
           THEN /\ NotAdmin(s, p, view, method)
                /\ UNCHANGED <<users, members, leaders, sentSMS, unread>>
           ELSE IF ~members[pk].exists
           THEN /\ AfterMiddleware(s, p)
                /\ UNCHANGED <<users, members, leaders, sentSMS, unread>>
                /\ response' = Resp(view, u, method, "not_found", None, None)
           ELSE IF method = "POST"
           THEN /\ members' = [members EXCEPT ![pk] = NoMember]
                /\ users' = [x \in UserIds |->
                                IF x \in gone THEN [users[x] EXCEPT !.exists = FALSE]
                                ELSE users[x]]
                /\ leaders' = {l \in leaders : l.church_member # pk}
                /\ sentSMS' = SelectSeq(sentSMS, LAMBDA r : r.recipient # pk)
                /\ unread' = unread \ {pk}
                /\ loginHistory' = SelectSeq(p.hist, LAMBDA r : r.user \notin gone)
                /\ sessions' = [x \in SessionIds |->
                                   LET sx == IF x = s THEN p.sess ELSE sessions[x]
                                   IN  IF sx.user \in gone THEN AnonymousSession ELSE sx]
                /\ response' = Resp(view, u, method, "redirect", "church_member_list",
                                    "deleted")
           ELSE /\ AfterMiddleware(s, p)
                /\ UNCHANGED <<users, members, leaders, sentSMS, unread>>
                /\ response' = Resp(view, u, method, "render", view, None)

(***************************************************************************)
(* sms/views.py: the views that delete SentSMS rows.  A row is named by    *)
(* its position in the table.                                              *)
(***************************************************************************)
RemoveAt(rows, i) == [j \in 1..(Len(rows) - 1) |-> IF j < i THEN rows[j] ELSE rows[j + 1]]

\* delete_sms: admin only.  secretary_delete_sms: @login_required only.
delete_one_sms(s, view, adminOnly, sms_id, method) ==
    LET p == Pipeline(s, view)
        u == p.sess.user
    IN  /\ UNCHANGED <<users, members, leaders, news, unread>>
        /\ IF u = None
           THEN LoginRequired(s, p, view, method) /\ UNCHANGED sentSMS
           ELSE IF adminOnly /\ ~is_admin_or_superuser(u)
           THEN NotAdmin(s, p, view, method) /\ UNCHANGED sentSMS
           ELSE /\ AfterMiddleware(s, p)
                /\ IF sms_id \notin 1..Len(sentSMS)
                   THEN /\ UNCHANGED sentSMS
                        /\ response' = Resp(view, u, method, "not_found", None, None)
                   ELSE IF method = "POST"
                   THEN /\ sentSMS' = RemoveAt(sentSMS, sms_id)
                        /\ response' = Resp(view, u, method, "redirect", "sms_status",
                                            "deleted")
                   ELSE /\ UNCHANGED sentSMS
                        /\ response' = Resp(view, u, method, "render", view, None)

delete_sms(s, sms_id, method) == delete_one_sms(s, "delete_sms", TRUE, sms_id, method)

secretary_delete_sms(s, sms_id, method) ==
    delete_one_sms(s, "secretary_delete_sms", FALSE, sms_id, method)

\* Faulty variant: the rows are deleted whatever the request method.
delete_every_sms_on_get(s, view, method) ==
    LET p == Pipeline(s, view)
        u == p.sess.user
    IN  /\ UNCHANGED <<users, members, leaders, news, unread>>
        /\ IF u = None
           THEN LoginRequired(s, p, view, method) /\ UNCHANGED sentSMS
           ELSE /\ AfterMiddleware(s, p)
                /\ sentSMS' = << >>
                /\ response' = Resp(view, u, method, "redirect", "sms_status",
                                    "deleted")

\* delete_all_sms and secretary_delete_all_sms: @login_required only.
delete_every_sms(s, view, method) ==
    LET p == Pipeline(s, view)
        u == p.sess.user
    IN  /\ UNCHANGED <<users, members, leaders, news, unread>>
        /\ IF u = None
           THEN LoginRequired(s, p, view, method) /\ UNCHANGED sentSMS
           ELSE /\ AfterMiddleware(s, p)
                /\ IF method = "POST"
                   THEN /\ sentSMS' = << >>
                        /\ response' = Resp(view, u, method, "redirect", "sms_status",
                                            "deleted")
                   ELSE /\ UNCHANGED sentSMS
                        /\ response' = Resp(view, u, method, "render", view, None)

delete_all_sms(s, method) == delete_every_sms(s, "delete_all_sms", method)

secretary_delete_all_sms(s, method) ==
    delete_every_sms(s, "secretary_delete_all_sms", method)

(***************************************************************************)
(* leaders/models.py: Leader.save and generate_unique_leader_id, and       *)
(* members/views.py: create_leader_from_member.                            *)
(***************************************************************************)
LeaderIds == {"L1", "L2", "L3"}

\* The ids the loop of generate_unique_leader_id can return: those no Leader
\* row holds.
generate_unique_leader_id(rows) == LeaderIds \ {l.leader_id : l \in rows}

\* Faulty variant: save draws a new leader_id on every save.
save_leader_new_id(inst, id) == [inst EXCEPT !.leader_id = id]

\* Leader.save lines 97-98: `id` is what generate_unique_leader_id returns.
save_leader(inst, id) ==
    IF inst.leader_id = None THEN [inst EXCEPT !.leader_id = id] ELSE inst

\* super().save(): leader_id is unique and church_member is one-to-one, so a
\* row that repeats either of another row is refused (IntegrityError).
LeaderConflict(rows, row) ==
    \E l \in rows : l.leader_id = row.leader_id \/ l.church_member = row.church_member

\* leader.save() for the Leader of member m with its occupation set to occ.
Leader_save(m, occ) ==
    /\ HasLeader(m)
    /\ UNCHANGED <<users, members, sessions, loginHistory, sentSMS, news, unread>>
    /\ \E id \in generate_unique_leader_id(leaders) :
           LET old == LeaderOf(m)
               row == save_leader([old EXCEPT !.occupation = occ], id)
           IN  IF LeaderConflict(leaders \ {old}, row)
               THEN /\ UNCHANGED leaders
                    /\ response' = [Resp("Leader.save", None, None, "raised", None,
                                         "IntegrityError") EXCEPT !.pk = m]
               ELSE /\ leaders' = (leaders \ {old}) \cup {row}
                    /\ response' = [Resp("Leader.save", None, None, "saved", None,
                                         None) EXCEPT !.pk = m]

\* leader.delete() for the Leader of member m.
Leader_delete(m) ==
    /\ HasLeader(m)
    /\ UNCHANGED <<users, members, sessions, loginHistory, sentSMS, news, unread>>
    /\ leaders' = leaders \ {LeaderOf(m)}
    /\ response' = [Resp("Leader.delete", None, None, "deleted", None, None)
                       EXCEPT !.pk = m]

\* LeaderForm is a ModelForm with the church_member field: is_valid() also
\* needs the submitted member to exist and to have no Leader yet.
LeaderFormValid(formValid, formMember) ==
    formValid /\ members[formMember].exists /\ ~HasLeader(formMember)

\* Faulty variant: the Leader keeps the member the form submitted.
LinkedLeaderAsSubmitted(inst, member_id) == inst

\* leader.church_member = church_member (line 136)
LinkedLeader(inst, member_id) == [inst EXCEPT !.church_member = member_id]

\* formMember and occ are the church_member and occupation the form carries.
create_leader_from_member(s, member_id, method, formValid, formMember, occ) ==
    LET view == "create_leader_from_member"
        p == Pipeline(s, view)
        u == p.sess.user
        inst == [church_member |-> formMember, occupation |-> occ,
                 time_in_service |-> None, leader_id |-> None]
    IN  /\ UNCHANGED <<users, members, sentSMS, news, unread>>
        /\ IF u = None
           THEN LoginRequired(s, p, view, method) /\ UNCHANGED leaders
           ELSE IF ~is_admin_or_superuser(u)
           THEN NotAdmin(s, p, view, method) /\ UNCHANGED leaders
           ELSE /\ AfterMiddleware(s, p)
                /\ IF ~members[member_id].exists
                   THEN /\ UNCHANGED leaders
                        /\ response' = Resp(view, u, method, "redirect",
                                            "church_member_list", "member_not_found")
                   ELSE IF HasLeader(member_id)
                   THEN /\ UNCHANGED leaders
                        /\ response' = Resp(view, u, method, "redirect",
                                            "church_member_list", "already_leader")
                   ELSE IF method = "POST" /\ LeaderFormValid(formValid, formMember)
                   THEN \E id \in generate_unique_leader_id(leaders) :
                          LET row == save_leader(LinkedLeader(inst, member_id), id)
                          IN  IF LeaderConflict(leaders, row)
                              THEN /\ UNCHANGED leaders
                                   /\ response' = Resp(view, u, method, "error", None,
                                                       "IntegrityError")
                              ELSE /\ leaders' = leaders \cup {row}
                                   /\ response' =
                                          [Resp(view, u, method, "redirect",
                                                "church_member_list", "leader_saved")
                                              EXCEPT !.pk = member_id]
                   ELSE /\ UNCHANGED leaders
                        /\ response' = Resp(view, u, method, "render", view,
                                            IF method = "POST" THEN "form_errors" ELSE None)

(***************************************************************************)
(* accounts/models.py: CustomUser.save.                                    *)
(***************************************************************************)
\* Faulty variant: save stores the instance as it was handed in.
save_instance_as_given(inst) == inst

\* Lines 78-79: an ADMIN is stored without a linked member.
save_instance(inst) ==
    IF inst.user_type = "ADMIN" THEN [inst EXCEPT !.church_member = None] ELSE inst

\* Lines 80-81: a CHURCH_MEMBER without a linked member raises ValueError.
save_raises(inst) ==
    inst.user_type # "ADMIN" /\ inst.user_type = "CHURCH_MEMBER"
        /\ inst.church_member = None

\* church_member is a OneToOneField: a second user on the same member is
\* refused by the database.
MemberTaken(u, cm) ==
    cm # None /\ \E x \in UserIds \ {u} : users[x].exists /\ users[x].church_member = cm

\* user.save() for the instance of u with user_type ut and church_member cm;
\* a user that does not exist yet is created (request_account).
CustomUser_save(u, ut, cm) ==
    LET inst == [users[u] EXCEPT !.exists = TRUE, !.user_type = ut,
                                 !.church_member = cm]
    IN  /\ UNCHANGED <<members, leaders, sessions, loginHistory, sentSMS, news, unread>>
        /\ IF save_raises(inst)
           THEN /\ UNCHANGED users
                /\ response' = [Resp("CustomUser.save", None, None, "raised", None,
                                     "ValueError") EXCEPT !.pk = u]
           ELSE IF MemberTaken(u, save_instance(inst).church_member)
           THEN /\ UNCHANGED users
                /\ response' = [Resp("CustomUser.save", None, None, "raised", None,
                                     "IntegrityError") EXCEPT !.pk = u]
           ELSE /\ users' = [users EXCEPT ![u] = save_instance(inst)]
                /\ response' = [Resp("CustomUser.save", None, None, "saved", None,
                                     None) EXCEPT !.pk = u]

(***************************************************************************)
(* accounts/views.py: the profile picture uploads.  `file` is the uploaded *)
(* file, None when the request carries none.                               *)
(***************************************************************************)
Files == {"f1"}

\* request.user.profile_picture.save(name, file, save=True) saves the user.
upload_picture(s, view, adminOnly, target, method, file) ==
    LET p == Pipeline(s, view)
        u == p.sess.user
    IN  /\ UNCHANGED <<members, leaders, sentSMS, news, unread>>
        /\ IF u = None
           THEN LoginRequired(s, p, view, method) /\ UNCHANGED users
           ELSE IF adminOnly /\ ~is_admin_or_superuser(u)
           THEN NotAdmin(s, p, view, method) /\ UNCHANGED users
           ELSE /\ AfterMiddleware(s, p)
                /\ IF method = "POST" /\ file # None
                   THEN LET inst == [users[u] EXCEPT !.profile_picture = file]
                        IN  IF save_raises(inst)
                            THEN /\ UNCHANGED users
                                 /\ response' = Resp(view, u, method, "error", None,
                                                     "ValueError")
                            ELSE /\ users' = [users EXCEPT ![u] = save_instance(inst)]
                                 /\ response' = Resp(view, u, method, "redirect",
                                                     target, "uploaded")
                   ELSE /\ UNCHANGED users
                        /\ response' = Resp(view, u, method, "render", view,
                                            IF method = "POST" THEN "no_file" ELSE None)

\* @login_required and @user_passes_test(is_admin_or_superuser).
upload_profile_picture(s, method, file) ==
    upload_picture(s, "upload_profile_picture", TRUE, "admin_dashboard", method, file)

\* @login_required only.
pastor_upload_profile_picture(s, method, file) ==
    upload_picture(s, "pastor_upload_profile_picture", FALSE, "pastor_dashboard",
                   method, file)

(***************************************************************************)
(* One request: the handler, and the bookkeeping of the history variable.  *)
(***************************************************************************)
TrackLastPage ==
    lastPage' =
        IF /\ response'.user # None
           /\ response'.view \notin get_ignored_paths \cup {"logout"}
        THEN [lastPage EXCEPT ![response'.user] = response'.view]
        ELSE lastPage

Handled(A) == A /\ TrackLastPage /\ UNCHANGED checked

ExistingUsers == {u \in UserIds : users[u].exists}

UserRow(su, ut, cm) ==
    [exists |-> TRUE, is_superuser |-> su, user_type |-> ut, church_member |-> cm,
     profile_picture |-> None]

LeaderRow(m, occ) ==
    [church_member |-> m, occupation |-> occ, time_in_service |-> None,
     leader_id |-> "L1"]

NoChecked == [called |-> FALSE, data |-> NoMember, errors |-> {}]

(***************************************************************************)
(* Spec: logging in and out and visiting pages from two browsers.          *)
(* u1 is an admin, u2 an active member who is an Evangelist, u3 a member   *)
(* waiting for approval.                                                   *)
(***************************************************************************)
Init ==
    /\ users = [u \in UserIds |->
                  CASE u = "u1" -> UserRow(FALSE, "ADMIN", None)
                    [] u = "u2" -> UserRow(FALSE, "CHURCH_MEMBER", "m1")
                    [] OTHER -> UserRow(FALSE, "CHURCH_MEMBER", "m2")]
    /\ members = [m \in MemberIds |->
                    IF m = "m1" THEN PlainMember("Active") ELSE PlainMember("Pending")]
    /\ leaders = {LeaderRow("m1", "Evangelist")}
    /\ sessions = [s \in SessionIds |-> AnonymousSession]
    /\ loginHistory = << >>
    /\ sentSMS = << >>
    /\ news = {"n1"}
    /\ unread = {"m1"}
    /\ response = NoResponse
    /\ checked = NoChecked
    /\ lastPage = [u \in UserIds |-> None]

Next ==
    \E s \in SessionIds, method \in Methods :
        \/ \E formValid \in BOOLEAN, auth \in ExistingUsers \cup {None} :
               Handled(login_view(s, method, formValid, auth))
        \/ Handled(logout_view(s, method))
        \/ Handled(evangelist_read_view(s, "evangelist_details", method))
        \/ Handled(admin_dashboard(s, method))
        \/ Handled(welcome_page(s, method))

Spec == Init /\ [][Next]_vars

(***************************************************************************)
(* SpecAccess: one browser, and an account u2 whose type, superuser flag,  *)
(* member, member status and leader occupation are any the tables admit,   *)
(* logged in or not: an account can change after its login.                *)
(***************************************************************************)
InitAccess ==
    /\ \E su \in BOOLEAN, ut \in UserTypes, cm \in {None, "m1"} :
           users = [u \in UserIds |->
                      CASE u = "u1" -> UserRow(FALSE, "ADMIN", None)
                        [] u = "u2" -> UserRow(su, ut, cm)
                        [] OTHER -> UserRow(FALSE, "CHURCH_MEMBER", "m2")]
    /\ \E st \in Statuses :
           members = [m \in MemberIds |->
                        IF m = "m1" THEN PlainMember(st) ELSE PlainMember("Pending")]
    /\ leaders \in {{}} \cup {{LeaderRow("m1", occ)} : occ \in Occupations}
    /\ users["u2"].church_member = None =>
           members["m1"].status = "Active" /\ leaders = {}
    /\ \E who \in {None, "u2"} :
           /\ sessions = [s \in SessionIds |->
                            IF s = "s1" THEN [user |-> who, last_visited_path |-> None]
                            ELSE AnonymousSession]
           /\ loginHistory = IF who = None THEN << >>
                             ELSE <<[user |-> who, last_visited_path |-> None]>>
    /\ sentSMS = <<[recipient |-> "m1", request_id |-> "r1", status |-> "PENDING"]>>
    /\ news = {"n1"}
    /\ unread = {"m1"}
    /\ response = NoResponse
    /\ checked = NoChecked
    /\ lastPage = [u \in UserIds |-> None]

NextAccess ==
    \E method \in Methods :
        \/ \E formValid \in BOOLEAN, auth \in (ExistingUsers \cap {"u2"}) \cup {None} :
               Handled(login_view("s1", method, formValid, auth))
        \/ \E view \in EvangelistReadViews :
               Handled(evangelist_read_view("s1", view, method))
        \/ \E pk \in MemberIds : Handled(evangelist_church_member_detail("s1", pk, method))
        \/ Handled(evangelist_leader_list_view("s1", method))
        \/ Handled(evangelist_inactive_leader_list_view("s1", method))
        \/ \E pk \in MemberIds : Handled(evangelist_leader_detail_view("s1", pk, method))
        \/ \E pk \in NewsIds \cup {None}, formValid \in BOOLEAN :
               Handled(evangelist_create_news_view("s1", pk, method, formValid))
        \/ \E pk \in NewsIds : Handled(evangelist_news_detail_view("s1", pk, method))
        \/ \E pk \in NewsIds : Handled(evangelist_delete_news_view("s1", pk, method))
        \/ Handled(evangelist_notifications_view("s1", method))
        \/ \E view \in RoleDashboards :
               Handled(login_required_dashboard("s1", view, method))
        \/ Handled(admin_dashboard("s1", method))
        \/ \E pk \in MemberIds : Handled(delete_church_member("s1", pk, method))
        \/ \E id \in 1..MaxSMS : Handled(delete_sms("s1", id, method))
        \/ \E id \in 1..MaxSMS : Handled(secretary_delete_sms("s1", id, method))
        \/ Handled(delete_all_sms("s1", method))
        \/ Handled(secretary_delete_all_sms("s1", method))

SpecAccess == InitAccess /\ [][NextAccess]_vars

(***************************************************************************)
(* SpecMember: the admin u1 works on the member table; every send_sms     *)
(* call gets any reply of the gateway.                                     *)
(***************************************************************************)
InitMember ==
    /\ users = [u \in UserIds |->
                  CASE u = "u1" -> UserRow(FALSE, "ADMIN", None)
                    [] u = "u2" -> UserRow(FALSE, "CHURCH_MEMBER", "m1")
                    [] OTHER -> [UserRow(FALSE, "CHURCH_MEMBER", "m2")
                                    EXCEPT !.exists = FALSE]]
    /\ \E m2 \in {NoMember, PlainMember("Pending")} :
           members = [m \in MemberIds |-> IF m = "m1" THEN PlainMember("Active") ELSE m2]
    /\ leaders = {}
    /\ sessions = [s \in SessionIds |->
                     [user |-> IF s = "s1" THEN "u1" ELSE "u2",
                      last_visited_path |-> None]]
    /\ loginHistory = <<[user |-> "u1", last_visited_path |-> None],
                        [user |-> "u2", last_visited_path |-> None]>>
    /\ sentSMS = << >>
    /\ news = {}
    /\ unread = {}
    /\ response = NoResponse
    /\ checked = NoChecked
    /\ lastPage = [u \in UserIds |-> None]

\* The forms a request can carry: a GET, a POST the form rejects, or a POST
\* with any row.
AnyRow == PlainMember("Active")

FormInputs ==
    {[method |-> "GET", formValid |-> FALSE, data |-> AnyRow],
     [method |-> "POST", formValid |-> FALSE, data |-> AnyRow]}
    \cup [method : {"POST"}, formValid : {TRUE}, data : MemberData]

\* The admin works on the row m2; m1 is the row of the member u2.
NextMember ==
    \/ \E f \in FormInputs, isLeader \in BOOLEAN, reply \in GatewayReplies :
           Handled(create_or_update_church_member("s1", None, f.method, f.formValid,
                                                  f.data, isLeader, reply))
    \/ \E f \in FormInputs :
           Handled(create_or_update_church_member("s1", "m2", f.method, f.formValid,
                                                  f.data, FALSE,
                                                  [kind |-> "exception", request_id |-> None]))
    \/ \E method \in Methods, reply \in GatewayReplies :
           Handled(approve_church_member("s1", "m2", method, reply))
    \/ \E f \in FormInputs :
           Handled(update_church_member("s1", "m2", f.method, f.formValid, f.data))
    \/ \E method \in Methods : Handled(delete_church_member("s1", "m2", method))

SpecMember == InitMember /\ [][NextMember]_vars

(***************************************************************************)
(* SpecUser: accounts are saved with any type and member, and logged-in    *)
(* users upload profile pictures.  u1 is an admin, u2 a member's account   *)
(* that may be a superuser, u3 an account not yet requested.               *)
(***************************************************************************)
InitUser ==
    /\ \E su \in BOOLEAN :
           users = [u \in UserIds |->
                      CASE u = "u1" -> UserRow(FALSE, "ADMIN", None)
                        [] u = "u2" -> UserRow(su, "CHURCH_MEMBER", "m1")
                        [] OTHER -> [UserRow(FALSE, "CHURCH_MEMBER", None)
                                        EXCEPT !.exists = FALSE]]
    /\ members = [m \in MemberIds |-> PlainMember("Active")]
    /\ leaders = {LeaderRow("m1", "Senior Pastor")}
    /\ \E who \in {None, "u1", "u2"} :
           /\ sessions = [s \in SessionIds |->
                            IF s = "s1" THEN [user |-> who, last_visited_path |-> None]
                            ELSE AnonymousSession]
           /\ loginHistory = IF who = None THEN << >>
                             ELSE <<[user |-> who, last_visited_path |-> None]>>
    /\ sentSMS = << >>
    /\ news = {}
    /\ unread = {}
    /\ response = NoResponse
    /\ checked = NoChecked
    /\ lastPage = [u \in UserIds |-> None]

NextUser ==
    \/ \E u \in {"u2", "u3"}, ut \in UserTypeValues, cm \in MemberIds \cup {None} :
           CustomUser_save(u, ut, cm) /\ UNCHANGED <<checked, lastPage>>
    \/ \E method \in Methods, file \in Files \cup {None} :
           Handled(upload_profile_picture("s1", method, file))
    \/ \E method \in Methods, file \in Files \cup {None} :
           Handled(pastor_upload_profile_picture("s1", method, file))

SpecUser == InitUser /\ [][NextUser]_vars

(***************************************************************************)
(* SpecLeader: the Evangelist u2 is logged in on s1 and the admin u1 on s2 *)
(* while the member's status and the Leader rows change.                   *)
(***************************************************************************)
InitLeader ==
    /\ users = [u \in UserIds |->
                  CASE u = "u1" -> UserRow(FALSE, "ADMIN", None)
                    [] u = "u2" -> UserRow(FALSE, "CHURCH_MEMBER", "m1")
                    [] OTHER -> UserRow(FALSE, "CHURCH_MEMBER", "m2")]
    /\ members = [m \in MemberIds |-> PlainMember("Active")]
    /\ leaders = {LeaderRow("m1", "Evangelist")}
    /\ sessions = [s \in SessionIds |->
                     [user |-> IF s = "s1" THEN "u2" ELSE "u1",
                      last_visited_path |-> None]]
    /\ loginHistory = <<[user |-> "u1", last_visited_path |-> None],
                        [user |-> "u2", last_visited_path |-> None]>>
    /\ sentSMS = << >>
    /\ news = {}
    /\ unread = {}
    /\ response = NoResponse
    /\ checked = NoChecked
    /\ lastPage = [u \in UserIds |-> None]

\* The occupations the Leader forms of this specification carry.
LeaderOccupations == {"Evangelist", "Senior Pastor"}

\* The member forms of this specification: they change the status only.
StatusForms ==
    {[method |-> "GET", formValid |-> FALSE, data |-> PlainMember("Active")]}
    \cup {[method |-> "POST", formValid |-> TRUE, data |-> PlainMember(st)] :
              st \in Statuses}

NextLeader ==
    \/ \E method \in Methods :
           Handled(evangelist_read_view("s1", "evangelist_details", method))
    \/ \E method \in Methods : Handled(evangelist_leader_list_view("s1", method))
    \/ \E method \in Methods, pk \in MemberIds :
           Handled(evangelist_leader_detail_view("s1", pk, method))
    \/ \E f \in StatusForms :
           Handled(update_church_member("s2", "m1", f.method, f.formValid, f.data))
    \/ \E method \in Methods, formValid \in BOOLEAN, m \in MemberIds,
          formMember \in MemberIds, occ \in LeaderOccupations :
           Handled(create_leader_from_member("s2", m, method, formValid, formMember, occ))
    \/ \E m \in MemberIds, occ \in LeaderOccupations : Handled(Leader_save(m, occ))
    \/ \E m \in MemberIds : Handled(Leader_delete(m))

SpecLeader == InitLeader /\ [][NextLeader]_vars

(***************************************************************************)
(* SpecRedirect: handle_user_redirection called for an account u2 of any   *)
(* type, superuser flag, member and leader occupation.                     *)
(***************************************************************************)
InitRedirect ==
    /\ \E su \in BOOLEAN, ut \in UserTypeValues, cm \in {None, "m1"} :
           users = [u \in UserIds |->
                      CASE u = "u1" -> UserRow(FALSE, "ADMIN", None)
                        [] u = "u2" -> UserRow(su, ut, cm)
                        [] OTHER -> UserRow(FALSE, "CHURCH_MEMBER", "m2")]
    /\ \E st \in Statuses :
           members = [m \in MemberIds |->
                        IF m = "m1" THEN PlainMember(st) ELSE PlainMember("Pending")]
    /\ leaders \in {{}} \cup {{LeaderRow("m1", occ)} : occ \in Occupations}
    /\ sessions = [s \in SessionIds |-> AnonymousSession]
    /\ loginHistory = << >>
    /\ sentSMS = << >>
    /\ news = {}
    /\ unread = {}
    /\ response = NoResponse
    /\ checked = NoChecked
    /\ lastPage = [u \in UserIds |-> None]

\* One call: the user, and the URL name of the redirect it returns.
RedirectCall(u) ==
    /\ response' = Resp("handle_user_redirection", u, None, "redirect",
                        handle_user_redirection(u), None)
    /\ UNCHANGED <<users, members, leaders, sessions, loginHistory, sentSMS, news,
                   unread, checked, lastPage>>

NextRedirect == \E u \in UserIds : RedirectCall(u)

SpecRedirect == InitRedirect /\ [][NextRedirect]_vars

(***************************************************************************)
(* SpecValidate: validate_member_data called on every combination of the   *)
(* five fields it reads.                                                   *)
(***************************************************************************)
ValidatorInputs ==
    [exists : {TRUE}, status : Statuses, is_baptised : BOOLEAN,
     has_received_first_communion : BOOLEAN, is_confirmed : BOOLEAN,
     is_married : BOOLEAN, marital_status : MaritalStatuses]

\* One call: the row, and the messages of the ValidationError ({}: no raise).
ValidateCall(data) ==
    /\ checked' = [called |-> TRUE, data |-> data, errors |-> validate_member_data(data)]
    /\ UNCHANGED <<users, members, leaders, sessions, loginHistory, sentSMS, news,
                   unread, response, lastPage>>

NextValidate == \E data \in ValidatorInputs : ValidateCall(data)

SpecValidate == Init /\ [][NextValidate]_vars

(***************************************************************************)
(* SpecLastPath: get_user_last_path called on any LoginHistory table of up *)
(* to MaxRecords rows.  The rows are in the order of login_time and the    *)
(* primary key of a row is its position; 0 is the key of no row.           *)
(***************************************************************************)
\* user.login_history.exclude(pk=current_login_id), as positions
prior_records(user, current_login_id) ==
    {i \in 1..Len(loginHistory) :
        loginHistory[i].user = user /\ i # current_login_id}

\* Faulty variant: the latest prior record whose path can be used.
get_user_last_path_fallback(user, current_login_id) ==
    LET usable == {i \in prior_records(user, current_login_id) :
                      /\ loginHistory[i].last_visited_path \notin {None, ""}
                      /\ loginHistory[i].last_visited_path \notin get_ignored_paths}
    IN  IF usable = {} THEN None
        ELSE loginHistory[CHOOSE i \in usable : \A j \in usable : j <= i].last_visited_path

get_user_last_path(user, current_login_id) ==
    LET prior == prior_records(user, current_login_id)
        \* order_by('-login_time').first()
        first == CHOOSE i \in prior : \A j \in prior : j <= i
    IN  IF prior # {}
        THEN LET last_path == loginHistory[first].last_visited_path
             IN  IF last_path \notin {None, ""} /\ last_path \notin get_ignored_paths
                 THEN last_path
                 ELSE None
        ELSE None

\* The users and the stored paths of the tables: unset (NULL or blank), an
\* ignored path and two paths that are not ignored.
HistoryUsers == {"u1", "u2"}
HistoryPaths == {None, "", "login", "evangelist_details", "admin_dashboard"}
HistoryRows == [user : HistoryUsers, last_visited_path : HistoryPaths]

InitLastPath ==
    /\ users = [u \in UserIds |->
                  IF u = "u1" THEN UserRow(FALSE, "ADMIN", None)
                  ELSE UserRow(FALSE, "CHURCH_MEMBER", None)]
    /\ members = [m \in MemberIds |-> NoMember]
    /\ leaders = {}
    /\ sessions = [s \in SessionIds |-> AnonymousSession]
    /\ \E n \in 0..MaxRecords : loginHistory \in [1..n -> HistoryRows]
    /\ sentSMS = << >>
    /\ news = {}
    /\ unread = {}
    /\ response = NoResponse
    /\ checked = [called |-> FALSE, user |-> "u1", current_login_id |-> 0,
                  result |-> None]
    /\ lastPage = [u \in UserIds |-> None]

\* One call: the arguments and the value returned.
LastPathCall(user, current_login_id) ==
    /\ checked' = [called |-> TRUE, user |-> user,
                   current_login_id |-> current_login_id,
                   result |-> get_user_last_path(user, current_login_id)]
    /\ UNCHANGED <<users, members, leaders, sessions, loginHistory, sentSMS, news,
                   unread, response, lastPage>>

NextLastPath ==
    \E user \in HistoryUsers, current_login_id \in 0..MaxRecords :
        LastPathCall(user, current_login_id)

SpecLastPath == InitLastPath /\ [][NextLastPath]_vars

(***************************************************************************)
(* The properties.                                                         *)
(***************************************************************************)
\* The access predicate of the specification, written out for one account.
EvangelistEligible(u) ==
    /\ users[u].user_type = "CHURCH_MEMBER"
    /\ users[u].church_member # None
    /\ members[users[u].church_member].status = "Active"
    /\ \E l \in leaders : /\ l.church_member = users[u].church_member
                          /\ l.occupation = "Evangelist"

NotActiveChurchMember(a) ==
    /\ ~users[a].is_superuser
    /\ users[a].user_type = "CHURCH_MEMBER"
    /\ \/ users[a].church_member = None
       \/ members[users[a].church_member].status \in {"Pending", "Inactive"}

\* C2: login_view never logs in a non-superuser CHURCH_MEMBER whose member is
\* missing or not Active: no step makes a session that of such a user, and a
\* login with that user's correct credentials leaves every session and every
\* LoginHistory row as it was and renders the login page with the error.
C2_InactiveMemberCannotLogIn ==
    [][\A a \in UserIds :
          NotActiveChurchMember(a) =>
             /\ \A s \in SessionIds : sessions'[s].user = a => sessions[s].user = a
             /\ (response'.view = "login" /\ response'.auth = a) =>
                   /\ sessions' = sessions
                   /\ loginHistory' = loginHistory
                   /\ response'.kind = "render"
                   /\ response'.target = "login"
                   /\ response'.msg = "account_inactive"]_vars

\* Correct credentials of an account whose member is Pending were refused.
C2_Witness ==
    /\ response.view = "login"
    /\ response.auth = "u2"
    /\ response.msg = "account_inactive"
    /\ users["u2"].church_member = "m1"
    /\ members["m1"].status = "Pending"
    /\ sessions["s1"].user = None

\* C3: a user's next credential login redirects to the last page (not an
\* ignored path) the user requested while logged in before.
C3_LastPageReplayed ==
    [][\A s \in SessionIds, u \in UserIds :
          (sessions[s].user = None /\ sessions'[s].user = u /\ lastPage[u] # None) =>
              (response'.kind = "redirect" /\ response'.target = lastPage[u])]_vars

\* C4: neither a session's last_visited_path nor a LoginHistory row's holds
\* an ignored path, and a request to an ignored path stores no path and
\* leaves the requesting session without the key.
NoIgnoredPathStored ==
    /\ \A s \in SessionIds : sessions[s].last_visited_path \notin get_ignored_paths
    /\ \A i \in 1..Len(loginHistory) :
           loginHistory[i].last_visited_path \notin get_ignored_paths

\* The request handled last came from browser s and named an ignored path.
IgnoredPathRequest(s) ==
    \E method \in Methods :
        \/ welcome_page(s, method)
        \/ \E formValid \in BOOLEAN, auth \in UserIds \cup {None} :
               login_view(s, method, formValid, auth)

C4_NoIgnoredPathStored ==
    /\ []NoIgnoredPathStored
    /\ [][\A s \in SessionIds :
              IgnoredPathRequest(s) =>
                 /\ sessions'[s].last_visited_path = None
                 /\ \A t \in SessionIds \ {s} : sessions'[t] = sessions[t]
                 /\ \A i \in 1..Len(loginHistory') :
                        \/ loginHistory'[i].last_visited_path = None
                        \/ /\ i <= Len(loginHistory)
                           /\ loginHistory'[i] = loginHistory[i]]_vars

\* A logged-in user who had a remembered page requested the welcome page: the
\* session key is gone, the LoginHistory row still holds the page.
C4_Witness ==
    /\ response.view = "welcome"
    /\ response.user # None
    /\ \E s \in SessionIds : /\ sessions[s].user = response.user
                             /\ sessions[s].last_visited_path = None
    /\ \E i \in 1..Len(loginHistory) :
           /\ loginHistory[i].user = response.user
           /\ loginHistory[i].last_visited_path = "evangelist_details"

\* The four rules of the sacrament ordering.
SacramentOrder(m) ==
    /\ m.has_received_first_communion => m.is_baptised
    /\ m.is_confirmed => (m.has_received_first_communion /\ m.is_baptised)
    /\ m.is_married => (m.is_confirmed /\ m.has_received_first_communion /\ m.is_baptised)
    /\ (m.marital_status = "Married") => m.is_married

\* C5: validate_member_data returns without raising exactly when the row
\* satisfies the four implications, and raises ValidationError otherwise.
C5_ValidatorAcceptsIffOrdered ==
    checked.called => ((checked.errors = {}) <=> SacramentOrder(checked.data))

\* A confirmed row without baptism was refused.
C5_Witness ==
    /\ checked.called
    /\ checked.data.is_confirmed
    /\ ~checked.data.is_baptised
    /\ checked.errors # {}

C7_SmsFailureKeepsMember ==
    (response.view \in {"create_or_update_church_member", "approve_church_member"}
        /\ response.sms.outcome # "none") =>
        /\ response.pk \in MemberIds
        /\ members[response.pk].exists
        /\ response.view = "approve_church_member" =>
               members[response.pk].status = "Active"
        /\ response.sms.outcome = "returned" =>
               /\ response.kind = "redirect"
               /\ response.target \in
                      IF response.view = "approve_church_member"
                      THEN {"church_member_list"}
                      ELSE {"church_member_list", "create_leader_from_member"}

\* The gateway failed while a member was approved: the member is Active and
\* the request redirected to the member list.
C7_Witness ==
    /\ response.view = "approve_church_member"
    /\ response.sms.outcome = "returned"
    /\ response.sms.error
    /\ response.kind = "redirect"
    /\ response.pk = "m2"
    /\ members["m2"].status = "Active"
    /\ sentSMS = << >>

\* C8: send_sms always returns a dictionary: with a request_id in the reply
\* it stores exactly one SentSMS row, PENDING and with that request_id, and
\* returns success; otherwise it returns an error and stores no row.
C8_SendSmsAlwaysReturns ==
    [][response'.sms.outcome # "none" =>
          /\ response'.sms.outcome = "returned"
          /\ response'.sms.success \/ response'.sms.error
          /\ response'.sms.success =>
                 sentSMS' = Append(sentSMS, [recipient |-> response'.pk,
                                             request_id |-> response'.sms.request_id,
                                             status |-> "PENDING"])
          /\ response'.sms.error => sentSMS' = sentSMS]_vars

\* The views restricted to admins and superusers.
AdminViews ==
    {"admin_dashboard", "create_or_update_church_member", "approve_church_member",
     "update_church_member", "delete_church_member", "delete_sms"}

IsAdminUser(u) == users[u].is_superuser \/ users[u].user_type = "ADMIN"

PermissionFailure ==
    /\ response.user # None
    /\ \/ response.view \in EvangelistViews /\ ~EvangelistEligible(response.user)
       \/ response.view \in AdminViews /\ ~IsAdminUser(response.user)

\* C9 as stated: every permission failure of a logged-in user is answered
\* with a denial (HTTP forbidden).
C9_EveryFailureForbidden ==
    PermissionFailure => response.kind = "forbidden"

\* C9 amended: a permission failure of a logged-in user is answered with a
\* denial (HTTP forbidden) in the Evangelist-gated views and with a redirect
\* to the login page in the views restricted to admins and superusers.
C9_ForbiddenOrLoginRedirect ==
    PermissionFailure =>
        IF response.view \in EvangelistViews
        THEN response.kind = "forbidden"
        ELSE response.kind = "redirect" /\ response.target = "login"

\* A logged-in user who is no admin asked to delete a member.
C9_Witness ==
    /\ response.view = "delete_church_member"
    /\ response.user = "u2"
    /\ ~IsAdminUser("u2")
    /\ response.kind = "redirect"
    /\ response.target = "login"
    /\ members["m1"].exists

\* The occupation handle_user_redirection sends to each role dashboard.
DashboardOccupation(view) ==
    CASE view = "pastor_dashboard" -> "Senior Pastor"
      [] view = "evangelist_dashboard" -> "Evangelist"
      [] view = "secretary_dashboard" -> "Parish Council Secretary"
      [] view = "accountant_dashboard" -> "Parish Treasurer"

\* C10: a role dashboard is served only to a church-member user whose linked
\* member is Active and is a Leader with the dashboard's occupation.
C10_DashboardsOccupationGated ==
    (response.view \in RoleDashboards /\ response.kind = "render") =>
        /\ response.user # None
        /\ users[response.user].user_type = "CHURCH_MEMBER"
        /\ users[response.user].church_member # None
        /\ members[users[response.user].church_member].status = "Active"
        /\ \E l \in leaders :
               /\ l.church_member = users[response.user].church_member
               /\ l.occupation = DashboardOccupation(response.view)

\* C11: a call of send_sms makes exactly one POST to the gateway, whatever the
\* gateway answers, so a member creation or an approval makes at most one
\* attempt and adds at most one SentSMS row; a request that does not reach
\* send_sms makes none and adds none.
C11_OnePostPerSend ==
    [][/\ response'.sms.attempts <= 1
       /\ response'.sms.outcome # "none" <=> response'.sms.attempts = 1
       /\ Len(sentSMS') <= Len(sentSMS) + response'.sms.attempts
       /\ response'.sms.outcome # "none" =>
              response'.view \in {"create_or_update_church_member",
                                  "approve_church_member"}]_vars

\* A member was created while the gateway answered without a request_id: one
\* attempt, no SentSMS row.
C11_Witness ==
    /\ response.view = "create_or_update_church_member"
    /\ response.sms.outcome = "returned"
    /\ response.sms.error
    /\ response.sms.attempts = 1
    /\ response.pk = "m2"
    /\ members["m2"].exists
    /\ sentSMS = << >>

\* The LoginHistory rows of the users other than u, in their order.
HistoryOfOthers(hist, u) == SelectSeq(hist, LAMBDA r : r.user # u)

\* C12: when logout_view has run for a logged-in user U, no LoginHistory row
\* of U is left, the session holds neither a user nor a last_visited_path,
\* and the LoginHistory rows of every other user are as they were.
C12_LogoutFrame ==
    [][\A s \in SessionIds, method \in Methods :
          (logout_view(s, method) /\ sessions[s].user # None) =>
              /\ \A i \in 1..Len(loginHistory') :
                     loginHistory'[i].user # sessions[s].user
              /\ sessions'[s].user = None
              /\ sessions'[s].last_visited_path = None
              /\ HistoryOfOthers(loginHistory', sessions[s].user) =
                     HistoryOfOthers(loginHistory, sessions[s].user)
              /\ \A t \in SessionIds \ {s} : sessions'[t] = sessions[t]]_vars

\* u2 has logged out while u1's LoginHistory row, with its path, is kept.
C12_Witness ==
    /\ response.view = "logout"
    /\ response.user = "u2"
    /\ lastPage["u2"] # None
    /\ \A s \in SessionIds : sessions[s].user # "u2"
    /\ loginHistory = <<[user |-> "u1", last_visited_path |-> "admin_dashboard"]>>

\* The link rule of CustomUser for one stored row.
LinkRule(row) ==
    /\ row.user_type = "ADMIN" => row.church_member = None
    /\ row.user_type = "CHURCH_MEMBER" => row.church_member # None

\* C13: every stored user satisfies the link rule (an ADMIN has no linked
\* member, a CHURCH_MEMBER has one); saving an ADMIN stores it without a
\* member, and saving a CHURCH_MEMBER without a member raises ValueError and
\* stores nothing.
C13_SaveKeepsLinkRule ==
    /\ [](\A u \in UserIds : users[u].exists => LinkRule(users[u]))
    /\ [][\A u \in UserIds, cm \in MemberIds \cup {None} :
              /\ CustomUser_save(u, "ADMIN", cm) =>
                     /\ response'.kind = "saved"
                     /\ users'[u].exists
                     /\ users'[u].user_type = "ADMIN"
                     /\ users'[u].church_member = None
              /\ CustomUser_save(u, "CHURCH_MEMBER", None) =>
                     /\ response'.kind = "raised"
                     /\ response'.msg = "ValueError"
                     /\ users' = users]_vars

\* The member's account u2 was saved as an ADMIN: its link is gone.
C13_Witness ==
    /\ response.view = "CustomUser.save"
    /\ response.kind = "saved"
    /\ response.pk = "u2"
    /\ users["u2"].user_type = "ADMIN"
    /\ users["u2"].church_member = None
    /\ users["u3"].exists
    /\ users["u3"].church_member = "m1"

\* C15: upload_profile_picture and pastor_upload_profile_picture change a
\* profile picture only for a request of a superuser or an ADMIN; a request
\* of any other logged-in user changes none.
C15_UploadsAdminOnly ==
    [][\A method \in Methods, file \in Files \cup {None} :
          (\/ upload_profile_picture("s1", method, file)
           \/ pastor_upload_profile_picture("s1", method, file)) =>
              \/ \A u \in UserIds :
                     users'[u].profile_picture = users[u].profile_picture
              \/ /\ sessions["s1"].user # None
                 /\ IsAdminUser(sessions["s1"].user)]_vars

\* C14: approve_church_member changes a member only from Pending to Active
\* and only on a POST: for an Active or Inactive member it answers not found
\* and changes nothing, and a GET for a Pending member changes nothing and
\* sends no SMS.
C14_ApproveOnlyPendingOnPost ==
    [][\A m \in MemberIds, method \in Methods, reply \in GatewayReplies :
          (/\ response'.view = "approve_church_member"
           /\ approve_church_member("s1", m, method, reply)) =>
              /\ members' # members =>
                     /\ method = "POST"
                     /\ members[m].exists /\ members[m].status = "Pending"
                     /\ members' = [members EXCEPT ![m].status = "Active"]
              /\ (members[m].exists /\ members[m].status \in {"Active", "Inactive"}) =>
                     /\ response'.kind = "not_found"
                     /\ members' = members
                     /\ sentSMS' = sentSMS
                     /\ response'.sms.outcome = "none"
              /\ (method = "GET" /\ members[m].exists /\ members[m].status = "Pending") =>
                     /\ members' = members
                     /\ sentSMS' = sentSMS
                     /\ response'.sms.outcome = "none"
                     /\ response'.kind = "render"]_vars

\* A POST for a member that is Inactive was answered not found and the member
\* is still Inactive.
C14_Witness ==
    /\ response.view = "approve_church_member"
    /\ response.method = "POST"
    /\ response.kind = "not_found"
    /\ members["m2"].exists
    /\ members["m2"].status = "Inactive"

\* A request of a logged-in user who fails the access predicate to an
\* Evangelist-gated view.
DeniedEvangelistRequest ==
    /\ response'.view \in EvangelistViews
    /\ sessions["s1"].user # None
    /\ ~EvangelistEligible(sessions["s1"].user)

\* The rows the views of the application keep.
AppRowsUnchanged == UNCHANGED <<users, members, leaders, sentSMS, news, unread>>

\* C16 as stated: a request to an Evangelist-gated view from a user who fails
\* the access predicate changes no stored record.
C16_DeniedChangesNoRecord ==
    [][DeniedEvangelistRequest => (AppRowsUnchanged /\ UNCHANGED loginHistory)]_vars

\* C16 amended: such a request is denied and changes no user, member,
\* leader, SentSMS, News or notification row (no News is created, changed or
\* deleted, no notification is marked read, no time_in_service is written);
\* the one stored record it changes is the user's latest LoginHistory row,
\* whose last_visited_path the middleware sets to the requested path.
C16_DeniedChangesOnlyLastPath ==
    [][DeniedEvangelistRequest =>
          /\ response'.kind = "forbidden"
          /\ AppRowsUnchanged
          /\ Len(loginHistory') = Len(loginHistory)
          /\ \A i \in 1..Len(loginHistory) :
                 \/ loginHistory'[i] = loginHistory[i]
                 \/ /\ loginHistory[i].user = sessions["s1"].user
                    /\ loginHistory'[i] =
                           [loginHistory[i] EXCEPT !.last_visited_path = response'.view]]_vars

\* A leader who is not an Evangelist POSTed to evangelist_delete_news_view:
\* denied, the News row is still there, the path is in the LoginHistory row.
C16_Witness ==
    /\ response.view = "evangelist_delete_news_view"
    /\ response.method = "POST"
    /\ response.kind = "forbidden"
    /\ response.user = "u2"
    /\ leaders = {LeaderRow("m1", "Senior Pastor")}
    /\ news = {"n1"}
    /\ unread = {"m1"}
    /\ loginHistory = <<[user |-> "u2",
                         last_visited_path |-> "evangelist_delete_news_view"]>>

\* The occupation of the Leader linked to the user's member, None without one.
OccupationOf(u) ==
    IF users[u].church_member # None
       /\ \E l \in leaders : l.church_member = users[u].church_member
    THEN (CHOOSE l \in leaders : l.church_member = users[u].church_member).occupation
    ELSE None

\* C17: handle_user_redirection gives every user exactly one target: a
\* superuser or ADMIN admin_dashboard, before any occupation is looked at;
\* otherwise a CHURCH_MEMBER the dashboard of its Leader's occupation or, with
\* another occupation or no Leader, member_dashboard; any other user_type
\* login.
C17_RedirectionMapping ==
    (response.view = "handle_user_redirection") =>
        LET u == response.user
            admin == users[u].is_superuser \/ users[u].user_type = "ADMIN"
            member == ~admin /\ users[u].user_type = "CHURCH_MEMBER"
            occ == OccupationOf(u)
        IN  /\ admin => response.target = "admin_dashboard"
            /\ (member /\ occ = "Senior Pastor") => response.target = "pastor_dashboard"
            /\ (member /\ occ = "Evangelist") => response.target = "evangelist_dashboard"
            /\ (member /\ occ = "Parish Council Secretary") =>
                   response.target = "secretary_dashboard"
            /\ (member /\ occ = "Parish Treasurer") =>
                   response.target = "accountant_dashboard"
            /\ (member /\ occ \notin {"Senior Pastor", "Evangelist",
                                       "Parish Council Secretary", "Parish Treasurer"}) =>
                   response.target = "member_dashboard"
            /\ (~admin /\ ~member) => response.target = "login"
            /\ response.target \in {"admin_dashboard", "pastor_dashboard",
                                     "evangelist_dashboard", "secretary_dashboard",
                                     "accountant_dashboard", "member_dashboard", "login"}

\* A superuser whose member is a Leader with the occupation Evangelist was
\* sent to admin_dashboard.
C17_Witness ==
    /\ response.view = "handle_user_redirection"
    /\ response.user = "u2"
    /\ users["u2"].is_superuser
    /\ users["u2"].user_type = "CHURCH_MEMBER"
    /\ OccupationOf("u2") = "Evangelist"
    /\ response.target = "admin_dashboard"

\* The dashboards handle_user_redirection sends a superuser, an ADMIN or a
\* CHURCH_MEMBER to.
Dashboards ==
    {"admin_dashboard", "pastor_dashboard", "evangelist_dashboard",
     "secretary_dashboard", "accountant_dashboard", "member_dashboard"}

\* C18: a logged-in superuser, ADMIN or CHURCH_MEMBER who requests the login
\* page is redirected, never to login or another ignored path: to the
\* remembered path when the view finds one that is not ignored, otherwise to
\* the role dashboard.
C18_NoLoginRedirectLoop ==
    (/\ response.view = "login"
     /\ response.user # None
     /\ \/ users[response.user].is_superuser
        \/ users[response.user].user_type \in {"ADMIN", "CHURCH_MEMBER"}) =>
        /\ response.kind = "redirect"
        /\ response.target \notin get_ignored_paths
        /\ \/ response.target \in Dashboards
           \/ response.target = lastPage[response.user]

\* A logged-in member who had visited a page requested the login page and was
\* sent to the member dashboard.
C18_Witness ==
    /\ response.view = "login"
    /\ response.user = "u2"
    /\ ~users["u2"].is_superuser
    /\ users["u2"].user_type = "CHURCH_MEMBER"
    /\ lastPage["u2"] = "evangelist_details"
    /\ response.kind = "redirect"
    /\ response.target = "member_dashboard"

\* The LoginHistory rows after path P was stored for user u: P is in the last
\* of u's rows, every other row is as it was.
StoredOnLatest(hist, u, P) ==
    [i \in 1..Len(hist) |->
        IF /\ hist[i].user = u
           /\ \A j \in (i + 1)..Len(hist) : hist[j].user # u
        THEN [hist[i] EXCEPT !.last_visited_path = P]
        ELSE hist[i]]

\* C19: for a request of a logged-in user to a path P that is not ignored the
\* middleware sets the session's last_visited_path to P and stores P in the
\* user's LoginHistory row with the latest login_time and in no other row;
\* for an anonymous request it changes neither the session nor any row; for
\* an ignored path it removes the session key and changes no row.
C19_MiddlewareFrame ==
    [][\A s \in SessionIds, method \in Methods :
          /\ (/\ response'.view \in {"evangelist_details", "admin_dashboard"}
              /\ \/ evangelist_read_view(s, "evangelist_details", method)
                 \/ admin_dashboard(s, method)) =>
                 IF sessions[s].user = None
                 THEN sessions' = sessions /\ loginHistory' = loginHistory
                 ELSE /\ sessions' = [sessions EXCEPT
                                         ![s].last_visited_path = response'.view]
                      /\ loginHistory' = StoredOnLatest(loginHistory, sessions[s].user,
                                                        response'.view)
          /\ (response'.view = "welcome" /\ welcome_page(s, method)) =>
                 /\ loginHistory' = loginHistory
                 /\ sessions' = IF sessions[s].user = None THEN sessions
                                ELSE [sessions EXCEPT ![s].last_visited_path = None]]_vars

\* u2 is logged in from two browsers and requested evangelist_details: the
\* path is in the later LoginHistory row only.
C19_Witness ==
    /\ response.view = "evangelist_details"
    /\ response.user = "u2"
    /\ loginHistory = <<[user |-> "u2", last_visited_path |-> None],
                        [user |-> "u2", last_visited_path |-> "evangelist_details"]>>

\* The views that delete records.
DeleteViews ==
    {"delete_church_member", "delete_sms", "delete_all_sms", "secretary_delete_sms",
     "secretary_delete_all_sms", "evangelist_delete_news_view"}

\* C20: a GET request to a deleting view deletes nothing: no user, member,
\* leader, SentSMS, News or notification row changes, and a request that is
\* let in and finds its record is answered with the rendered confirmation
\* page, never with the redirect that follows a deletion.
C20_DeleteOnlyOnPost ==
    [][(response'.view \in DeleteViews /\ response'.method = "GET") =>
          /\ AppRowsUnchanged
          /\ response'.msg # "deleted"
          /\ response'.kind \in {"render", "redirect", "forbidden", "not_found"}
          /\ response'.kind = "redirect" =>
                 response'.target = "login" /\ ~(/\ response'.user # None
                                                 /\ IsAdminUser(response'.user))
          /\ response'.kind = "render" => response'.target = response'.view]_vars

\* A logged-in user who is no admin got the confirmation page of
\* delete_all_sms and the SentSMS row is still there.
C20_Witness ==
    /\ response.view = "delete_all_sms"
    /\ response.method = "GET"
    /\ response.kind = "render"
    /\ response.user = "u2"
    /\ ~IsAdminUser("u2")
    /\ Len(sentSMS) = 1

\* The views of sms/views.py that delete SentSMS rows.
SmsDeleteViews ==
    {"delete_sms", "delete_all_sms", "secretary_delete_sms", "secretary_delete_all_sms"}

\* C21: a request to a view that deletes one SentSMS row or all of them
\* deletes rows only when its user is an admin or a superuser; a request of
\* any other logged-in user deletes no SentSMS row.
C21_SmsDeletionAdminOnly ==
    [][(response'.view \in SmsDeleteViews /\ sentSMS' # sentSMS) =>
          /\ sessions["s1"].user # None
          /\ IsAdminUser(sessions["s1"].user)]_vars

\* C22: the access check is made again on every request: a request of the
\* logged-in Evangelist u2 to an Evangelist view is denied whenever, at the
\* time of the request, the member is not Active, or has no Leader row, or
\* the Leader's occupation is not Evangelist, although the session was opened
\* while u2 was eligible.
C22_DeniedOnceIneligible ==
    [][(/\ response'.view \in EvangelistViews
        /\ sessions["s1"].user = "u2"
        /\ ~EvangelistEligible("u2")) => response'.kind = "forbidden"]_vars

\* The member of u2 was made Inactive while u2 stayed logged in as a Leader
\* with occupation Evangelist, and the next request of u2 was denied.
C22_Witness ==
    /\ response.view = "evangelist_leader_list_view"
    /\ response.kind = "forbidden"
    /\ response.user = "u2"
    /\ sessions["s1"].user = "u2"
    /\ members["m1"].status = "Inactive"
    /\ leaders = {LeaderRow("m1", "Evangelist")}

\* The four rules of the sacrament ordering, each with its message.
RuleHolds(m) ==
    [first_communion_without_baptism |->
         (m.has_received_first_communion => m.is_baptised),
     confirmed_without_communion_and_baptism |->
         (m.is_confirmed => (m.has_received_first_communion /\ m.is_baptised)),
     married_without_sacraments |->
         (m.is_married =>
              (m.is_confirmed /\ m.has_received_first_communion /\ m.is_baptised)),
     married_status_not_married |->
         ((m.marital_status = "Married") => m.is_married)]

\* C23: validate_member_data reports every violated rule at once and each
\* rule on its own: the message of a rule is among the reported messages
\* exactly when that rule is violated, whatever the other rules give, so the
\* number of messages is the number of violated rules, between 1 and 4 when
\* the ValidationError is raised.
C23_EveryViolatedRuleReported ==
    checked.called =>
        LET holds == RuleHolds(checked.data)
            violated == {r \in DOMAIN holds : ~holds[r]}
        IN  /\ \A r \in DOMAIN holds : (r \in checked.errors) <=> ~holds[r]
            /\ checked.errors \subseteq DOMAIN holds
            /\ Cardinality(checked.errors) = Cardinality(violated)
            /\ checked.errors # {} => Cardinality(checked.errors) \in 1..4

\* A married and confirmed row with first communion and no baptism: three
\* rules are violated and the three messages were reported together.
C23_Witness ==
    /\ checked.called
    /\ checked.data.is_married
    /\ checked.data.is_confirmed
    /\ checked.data.has_received_first_communion
    /\ ~checked.data.is_baptised
    /\ checked.errors = {"first_communion_without_baptism",
                          "confirmed_without_communion_and_baptism",
                          "married_without_sacraments"}

\* C24: no member ever has more than one Leader row; a request of the admin
\* to create_leader_from_member for a member that has a Leader creates
\* nothing and redirects to the member list with the error message; and a
\* Leader the view creates is one new row linked to the member of the URL,
\* whatever member the submitted form carries.
C24_OneLeaderPerMember ==
    /\ [](\A m \in MemberIds :
             Cardinality({l \in leaders : l.church_member = m}) <= 1)
    /\ [][response'.view = "create_leader_from_member" =>
             \A m \in MemberIds, formValid \in BOOLEAN,
                formMember \in MemberIds, occ \in LeaderOccupations :
                create_leader_from_member("s2", m, response'.method, formValid,
                                          formMember, occ) =>
                    /\ HasLeader(m) =>
                           /\ leaders' = leaders
                           /\ response'.kind = "redirect"
                           /\ response'.target = "church_member_list"
                           /\ response'.msg = "already_leader"
                    /\ leaders \subseteq leaders'
                    /\ Cardinality(leaders' \ leaders) <= 1
                    /\ \A l \in leaders' \ leaders : l.church_member = m]_vars

\* The Leader of m1 was deleted, and the admin created a Leader for m2: the
\* one Leader row is linked to m2.
C24_Witness ==
    /\ response.view = "create_leader_from_member"
    /\ response.msg = "leader_saved"
    /\ response.pk = "m2"
    /\ Cardinality(leaders) = 1
    /\ \A l \in leaders : l.church_member = "m2"

\* C25: Leader.save gives a leader_id only to a Leader that has none and
\* never changes one: a Leader row that is there before and after a step (a
\* save of the row, a time_in_service update of a list or detail view, or
\* anything else) has the same leader_id, a new row gets an id that no row
\* held, and at all times no two Leader rows share a leader_id.
C25_LeaderIdStable ==
    /\ [](\A l1, l2 \in leaders :
             /\ l1.leader_id \in LeaderIds
             /\ l1.leader_id = l2.leader_id => l1 = l2)
    /\ [][\A l2 \in leaders' :
             IF \E l1 \in leaders : l1.church_member = l2.church_member
             THEN \A l1 \in leaders :
                      l1.church_member = l2.church_member => l2.leader_id = l1.leader_id
             ELSE l2.leader_id \notin {l1.leader_id : l1 \in leaders}]_vars

\* The Leader of m1 had its time_in_service written by a view and was then
\* saved with another occupation, next to a second Leader: it still has the
\* leader_id it started with and the other Leader has another one.
C25_Witness ==
    /\ response.view = "Leader.save"
    /\ response.kind = "saved"
    /\ response.pk = "m1"
    /\ [church_member |-> "m1", occupation |-> "Senior Pastor",
        time_in_service |-> "computed", leader_id |-> "L1"] \in leaders
    /\ \E l \in leaders : l.church_member = "m2" /\ l.leader_id # "L1"

\* The records of the call's user other than the record current_login_id.
OtherRecords ==
    {i \in 1..Len(loginHistory) :
        loginHistory[i].user = checked.user /\ i # checked.current_login_id}

\* C26: get_user_last_path returns the last_visited_path of the most recent
\* record of the user other than the record current_login_id when that path
\* is set and not ignored, and None in every other case: there is no such
\* record, or its path is unset or ignored.  An older record is not looked
\* at, and the record current_login_id is never the one the path comes from.
C26_LastPathOfLatestOtherRecord ==
    checked.called =>
        /\ OtherRecords = {} => checked.result = None
        /\ \A i \in OtherRecords :
               (\A j \in OtherRecords : j <= i) =>
                   LET path == loginHistory[i].last_visited_path
                   IN  IF path \in {None, ""} \cup get_ignored_paths
                       THEN checked.result = None
                       ELSE checked.result = path

\* The current record and the oldest record of u1 hold paths that could be
\* used and the record between them holds an ignored path: None is returned.
C26_Witness ==
    /\ checked.called
    /\ checked.user = "u1"
    /\ checked.current_login_id = 3
    /\ checked.result = None
    /\ loginHistory = <<[user |-> "u1", last_visited_path |-> "evangelist_details"],
                        [user |-> "u1", last_visited_path |-> "login"],
                        [user |-> "u1", last_visited_path |-> "admin_dashboard"]>>

====
